---- MODULE Spec2Model ----
(***************************************************************************)
(* A model of relvacode/caddy-geoip2.                                      *)
(*                                                                         *)
(*   SpecDb    one Database (database.go): construction, the background    *)
(*             refresh goroutine, concurrent ASN/City/Country lookups and  *)
(*             Close, interleaved at the granularity of the statements     *)
(*             that touch shared state (the RWMutex, db.db, the context,   *)
(*             the err channel).                                           *)
(*   SpecHandler  one request through Handler.ServeHTTP over a set of      *)
(*             handles whose answers are given.                            *)
(*   SpecApp   GeoIp2.Provision building the handles edition by edition,   *)
(*             and GeoIp2.Destruct closing them.                           *)
(*   SpecLegacy  the single-database GeoIp2 app of geoip2.go: Start, the   *)
(*             periodic update goroutine, Lookup, Stop and Destruct.       *)
(***************************************************************************)
EXTENDS Integers, Sequences, FiniteSets, TLC

\* ------------------------------------------------------------------ bounds
NumReaders == 2
MaxCycles == 2
MaxCloseCalls == 2

Readers == 1..NumReaders
\* updateEvery is a time.Duration: negative, zero or positive
Durations == {0 - 1, 0, 1}
\* what a fetch (update) can do: fail, or leave a file that opens or does not
FetchOutcomes == {"fail", "valid", "invalid"}
\* what an open decoder answers for an address: a record with data, a record
\* without data, or an error
Answers == {"data", "nodata", "err"}

\* the nil *geoip2.Reader
NoDecoder == 0
\* the capacity of the legacy app's exit channel
ExitCapacity == 1

VARIABLES
    ctorIn,      \* the arguments of NewDatabase and the file found at filePath
    built,       \* "no" | "ok" | "err": the outcome of NewDatabase
    ctorLog,     \* what NewDatabase did, in order
    file,        \* the file at filePath: [st, ver]
    decoders,    \* every geoip2.Reader opened: [st, ver, closes]
    dbdb,        \* db.db: an index of decoders, or NoDecoder
    mxW,         \* db.mx: the goroutine holding the write lock, or "none"
    mxR,         \* db.mx: the readers holding a read lock
    cancelled,   \* ctx.Done() is closed
    errClosed,   \* db.err is closed
    errCloses,   \* number of close(db.err) executed
    errBuf,      \* the errors buffered in db.err (capacity 1)
    taskPc,      \* the background goroutine's position
    tasks,       \* number of live background goroutines
    cycles,      \* number of refresh cycles started
    cyc,         \* the current/last refresh cycle: [start, outcome, file]
    rd,          \* the lookup callers
    closePc,     \* the Close caller's position
    closeCalls,  \* number of Close calls made
    closeDone,   \* number of Close calls returned
    closeRet,    \* what the last Close returned
    crashed      \* a nil dereference happened

dbVars == <<ctorIn, built, ctorLog, file, decoders, dbdb, mxW, mxR, cancelled,
            errClosed, errCloses, errBuf, taskPc, tasks, cycles, cyc, rd, closePc,
            closeCalls, closeDone, closeRet, crashed>>

\* Handler (the request middleware)
VARIABLES
    hIn,         \* g.databases as the handler sees it: what each handle answers
    hPc,         \* "idle" | "done"
    hReq,        \* the request served: [tls, addr]
    repl,        \* the replacer keys set for the request
    hSrc,        \* per section, the handle whose record was published (0: none)
    hQueried,    \* per section, the handles queried, in order
    hRet         \* what ServeHTTP returned

hVars == <<hIn, hPc, hReq, repl, hSrc, hQueried, hRet>>

\* GeoIp2 (the app): Provision and Destruct
VARIABLES
    pIn,         \* the configuration and the files in the database directory
    pPc,         \* "new" | "loop" | "ok" | "failed" | "destructing" | "destructed"
    pCfg,        \* after the defaults: [hasConfig, freq, editions]
    pFiles,      \* the file at each edition's path
    databases,   \* g.databases: [edition, task, open, closes, ret]
    pIdx,        \* position of the loop over the editions / the databases
    pRet         \* what Provision / Destruct returned

pVars == <<pIn, pPc, pCfg, pFiles, databases, pIdx, pRet>>

\* the legacy GeoIp2 app (geoip2.go): one decoder, Start, Stop, Lookup, Destruct
VARIABLES
    gIn,         \* the configuration and the file found at g.filePath
    gStart,      \* "no" | "ok" | "failed": Start not called, or what it returned
    gFile,       \* the file at g.filePath: [st, ver]
    gDecoders,   \* every maxminddb.Reader opened: [st, ver, closes]
    gDb,         \* g.db: an index of gDecoders, or NoDecoder
    gMxW,        \* g.mx: the goroutine holding the write lock, or "none"
    gMxR,        \* g.mx: the callers of Lookup holding a read lock
    gCancelled,  \* g.ctx is cancelled
    gExit,       \* g.exit: [buf, closed], a channel of capacity 1
    gTaskPc,     \* the update goroutine's position
    gCycles,     \* number of periodic updates started
    gLast,       \* how the last periodic update ended: "none" | "ok" | "fail"
    gRd,         \* the callers of Lookup
    gStop,       \* the caller of Stop: [pc, ret, last]
    gDestruct    \* the caller of Destruct: "no" | "lock" | "locked" | "done"

gVars == <<gIn, gStart, gFile, gDecoders, gDb, gMxW, gMxR, gCancelled, gExit,
           gTaskPc, gCycles, gLast, gRd, gStop, gDestruct>>

vars == <<dbVars, hVars, pVars, gVars>>

\* ---------------------------------------------------------------- helpers
AbsentFile == [st |-> "absent", ver |-> 0]
\* the file NewDatabase finds at filePath: none, one that opens, one that does
\* not open, one that os.Stat cannot reach
InitialFiles == {AbsentFile, [st |-> "valid", ver |-> 1], [st |-> "invalid", ver |-> 1],
                 [st |-> "noaccess", ver |-> 1]}

\* os.Stat(filePath) returns an error
StatFails(f) == f.st \in {"absent", "noaccess"}

\* update(): the fetch either fails and leaves filePath as it was, or
\* replaces the file at filePath (the path NewLocalFileDatabaseWriter is given)
update(f, out) ==
    IF out = "fail"
    THEN [err |-> TRUE, file |-> f]
    ELSE [err |-> FALSE, file |-> [st |-> out, ver |-> f.ver + 1]]

\* geoip2.Open(filePath) succeeds on a valid file
CanOpen(f) == f.st = "valid"

NewDecoder(f) == [st |-> "open", ver |-> f.ver, closes |-> 0]

CloseDecoderAt(ds, i) ==
    [ds EXCEPT ![i] = [@ EXCEPT !.st = "closed", !.closes = @ + 1]]

IdleReader == [pc |-> "idle", p |-> NoDecoder, open0 |-> FALSE,
               res |-> "-", afterClose |-> FALSE]

NoCycle == [start |-> NoDecoder, outcome |-> "none", file |-> AbsentFile]

\* ------------------------------------------------------------ NewDatabase
NewDatabaseFailed(f, log) ==
    [ok |-> FALSE, file |-> f, opened |-> FALSE, task |-> FALSE,
     errClosed |-> FALSE, log |-> log]

\* NewDatabase that leaves db.err open when it starts no goroutine
NewDatabaseResultNoCloseErr(c, e, f, out) ==
    LET notExist == f.st = "absent"
        doFetch  == notExist /\ c
        u        == IF doFetch THEN update(f, out) ELSE [err |-> StatFails(f), file |-> f]
        log1     == <<"stat">> \o (IF doFetch THEN <<"fetch">> ELSE <<>>)
        goTask   == c /\ e > 0
    IN  IF u.err THEN NewDatabaseFailed(u.file, log1)
        ELSE IF ~CanOpen(u.file) THEN NewDatabaseFailed(u.file, log1 \o <<"open">>)
        ELSE [ok |-> TRUE, file |-> u.file, opened |-> TRUE, task |-> goTask,
              errClosed |-> FALSE,
              log |-> log1 \o <<"open">> \o (IF goTask THEN <<"go">> ELSE <<>>)]

\* NewDatabase that fetches a missing file whether or not there is a config
NewDatabaseResultFetchAlways(c, e, f, out) ==
    LET notExist == f.st = "absent"
        doFetch  == notExist
        u        == IF doFetch THEN update(f, out) ELSE [err |-> StatFails(f), file |-> f]
        log1     == <<"stat">> \o (IF doFetch THEN <<"fetch">> ELSE <<>>)
        goTask   == c /\ e > 0
    IN  IF u.err THEN NewDatabaseFailed(u.file, log1)
        ELSE IF ~CanOpen(u.file) THEN NewDatabaseFailed(u.file, log1 \o <<"open">>)
        ELSE [ok |-> TRUE, file |-> u.file, opened |-> TRUE, task |-> goTask,
              errClosed |-> ~goTask,
              log |-> log1 \o <<"open">> \o (IF goTask THEN <<"go">> ELSE <<"close">>)]

\* NewDatabase that goes on to open the decoder after a failed fetch
NewDatabaseResultIgnoresFetchError(c, e, f, out) ==
    LET notExist == f.st = "absent"
        doFetch  == notExist /\ c
        u        == IF doFetch THEN [err |-> FALSE, file |-> update(f, out).file]
                    ELSE [err |-> StatFails(f), file |-> f]
        log1     == <<"stat">> \o (IF doFetch THEN <<"fetch">> ELSE <<>>)
        goTask   == c /\ e > 0
    IN  IF u.err THEN NewDatabaseFailed(u.file, log1)
        ELSE IF ~CanOpen(u.file) THEN NewDatabaseFailed(u.file, log1 \o <<"open">>)
        ELSE [ok |-> TRUE, file |-> u.file, opened |-> TRUE, task |-> goTask,
              errClosed |-> ~goTask,
              log |-> log1 \o <<"open">> \o (IF goTask THEN <<"go">> ELSE <<"close">>)]

\* NewDatabase(config, edition, dataDir, updateEvery) with the file f at
\* filePath and the outcome out of the fetch, should one be made
NewDatabaseResult(c, e, f, out) ==
    LET notExist == f.st = "absent"
        doFetch  == notExist /\ c
        u        == IF doFetch THEN update(f, out) ELSE [err |-> StatFails(f), file |-> f]
        log1     == <<"stat">> \o (IF doFetch THEN <<"fetch">> ELSE <<>>)
        goTask   == c /\ e > 0
    IN  IF u.err THEN NewDatabaseFailed(u.file, log1)
        ELSE IF ~CanOpen(u.file) THEN NewDatabaseFailed(u.file, log1 \o <<"open">>)
        ELSE [ok |-> TRUE, file |-> u.file, opened |-> TRUE, task |-> goTask,
              errClosed |-> ~goTask,
              log |-> log1 \o <<"open">> \o (IF goTask THEN <<"go">> ELSE <<"close">>)]

\* before NewDatabase is called with the arguments and the file of in
InitDbWith(in) ==
    /\ ctorIn = in
    /\ built = "no"
    /\ ctorLog = <<>>
    /\ file = in.file
    /\ decoders = <<>>
    /\ dbdb = NoDecoder
    /\ mxW = "none"
    /\ mxR = {}
    /\ cancelled = FALSE
    /\ errClosed = FALSE
    /\ errCloses = 0
    /\ errBuf = <<>>
    /\ taskPc = "none"
    /\ tasks = 0
    /\ cycles = 0
    /\ cyc = NoCycle
    /\ rd = [r \in Readers |-> IdleReader]
    /\ closePc = "idle"
    /\ closeCalls = 0
    /\ closeDone = 0
    /\ closeRet = "-"
    /\ crashed = FALSE

InitDb ==
    \E in \in [config : BOOLEAN, updateEvery : Durations, file : InitialFiles] :
        InitDbWith(in)

NewDatabase ==
    /\ built = "no"
    /\ \E out \in FetchOutcomes :
         LET res == NewDatabaseResult(ctorIn.config, ctorIn.updateEvery, file, out)
         IN  /\ built' = IF res.ok THEN "ok" ELSE "err"
             /\ ctorLog' = res.log
             /\ file' = res.file
             /\ decoders' = IF res.opened THEN <<NewDecoder(res.file)>> ELSE <<>>
             /\ dbdb' = IF res.opened THEN 1 ELSE NoDecoder
             /\ errClosed' = res.errClosed
             /\ errCloses' = IF res.errClosed THEN 1 ELSE 0
             /\ taskPc' = IF res.task THEN "select" ELSE "none"
             /\ tasks' = IF res.task THEN 1 ELSE 0
    /\ UNCHANGED <<errBuf, ctorIn, mxW, mxR, cancelled, cycles, cyc, rd, closePc,
                   closeCalls, closeDone, closeRet, crashed>>
    /\ UNCHANGED <<hVars, pVars, gVars>>

\* ------------------------------------------- startAutomaticUpdates, updater
\* case <-ticker.C: updater() is called and asks for the write lock
TaskTick ==
    /\ taskPc = "select"
    /\ cycles < MaxCycles
    /\ taskPc' = "lock"
    /\ cycles' = cycles + 1
    /\ cyc' = [start |-> dbdb, outcome |-> "running", file |-> file]
    /\ UNCHANGED <<errBuf, ctorIn, built, ctorLog, file, decoders, dbdb, mxW, mxR,
                   cancelled, errClosed, errCloses, tasks, rd, closePc,
                   closeCalls, closeDone, closeRet, crashed>>
    /\ UNCHANGED <<hVars, pVars, gVars>>

\* the updater going on without the write lock
TaskLockSkipped ==
    /\ taskPc = "lock"
    /\ taskPc' = "fetch"
    /\ UNCHANGED <<errBuf, ctorIn, built, ctorLog, file, decoders, dbdb, mxW, mxR,
                   cancelled, errClosed, errCloses, tasks, cycles, cyc, rd,
                   closePc, closeCalls, closeDone, closeRet, crashed>>
    /\ UNCHANGED <<hVars, pVars, gVars>>

\* db.mx.Lock() returns: no reader and no writer holds the lock
TaskLockAcquire ==
    /\ taskPc = "lock"
    /\ mxW = "none"
    /\ mxR = {}
    /\ mxW' = "task"
    /\ taskPc' = "fetch"
    /\ UNCHANGED <<errBuf, ctorIn, built, ctorLog, file, decoders, dbdb, mxR, cancelled,
                   errClosed, errCloses, tasks, cycles, cyc, rd, closePc,
                   closeCalls, closeDone, closeRet, crashed>>
    /\ UNCHANGED <<hVars, pVars, gVars>>

\* the loop returning on a failed update instead of logging it
TaskFetchExitOnError(out) ==
    /\ taskPc = "fetch"
    /\ LET u == update(file, out)
       IN  /\ file' = u.file
           /\ IF u.err
              THEN /\ taskPc' = "exited"
                   /\ tasks' = tasks - 1
                   /\ errClosed' = TRUE
                   /\ errCloses' = errCloses + 1
                   /\ mxW' = "none"
                   /\ cyc' = [cyc EXCEPT !.outcome = "fetchfail"]
              ELSE /\ taskPc' = "open"
                   /\ UNCHANGED <<mxW, cyc, tasks, errClosed, errCloses>>
    /\ UNCHANGED <<errBuf, ctorIn, built, ctorLog, decoders, dbdb, mxR, cancelled,
                   cycles, rd, closePc, closeCalls, closeDone, closeRet, crashed>>
    /\ UNCHANGED <<hVars, pVars, gVars>>

\* the updater sending a failed update on db.err
TaskFetchSendsError(out) ==
    /\ taskPc = "fetch"
    /\ LET u == update(file, out)
       IN  /\ file' = u.file
           /\ IF u.err
              THEN /\ taskPc' = "select"
                   /\ mxW' = "none"
                   /\ cyc' = [cyc EXCEPT !.outcome = "fetchfail"]
                   /\ errBuf' = IF errBuf = <<>> THEN <<"err">> ELSE errBuf
              ELSE /\ taskPc' = "open"
                   /\ UNCHANGED <<mxW, cyc, errBuf>>
    /\ UNCHANGED <<ctorIn, built, ctorLog, decoders, dbdb, mxR, cancelled,
                   errClosed, errCloses, tasks, cycles, rd, closePc,
                   closeCalls, closeDone, closeRet, crashed>>
    /\ UNCHANGED <<hVars, pVars, gVars>>

\* err := update(config, edition, filePath); on error the deferred Unlock
\* runs, the error is logged and the loop selects again
TaskFetch(out) ==
    /\ taskPc = "fetch"
    /\ LET u == update(file, out)
       IN  /\ file' = u.file
           /\ IF u.err
              THEN /\ taskPc' = "select"
                   /\ mxW' = "none"
                   /\ cyc' = [cyc EXCEPT !.outcome = "fetchfail"]
              ELSE /\ taskPc' = "open"
                   /\ UNCHANGED <<mxW, cyc>>
    /\ UNCHANGED <<errBuf, ctorIn, built, ctorLog, decoders, dbdb, mxR, cancelled,
                   errClosed, errCloses, tasks, cycles, rd, closePc,
                   closeCalls, closeDone, closeRet, crashed>>
    /\ UNCHANGED <<hVars, pVars, gVars>>

\* the updater closing the current decoder before it knows the new one opens
TaskOpenClosesOldFirst ==
    /\ taskPc = "open"
    /\ IF CanOpen(file)
       THEN /\ decoders' = Append(decoders, NewDecoder(file))
            /\ taskPc' = "swap"
            /\ UNCHANGED <<mxW, cyc>>
       ELSE /\ taskPc' = "select"
            /\ mxW' = "none"
            /\ cyc' = [cyc EXCEPT !.outcome = "openfail"]
            /\ decoders' = CloseDecoderAt(decoders, dbdb)
    /\ UNCHANGED <<errBuf, ctorIn, built, ctorLog, file, dbdb, mxR, cancelled,
                   errClosed, errCloses, tasks, cycles, rd, closePc,
                   closeCalls, closeDone, closeRet, crashed>>
    /\ UNCHANGED <<hVars, pVars, gVars>>

\* the loop returning on a failed open instead of logging it
TaskOpenExitOnError ==
    /\ taskPc = "open"
    /\ IF CanOpen(file)
       THEN /\ decoders' = Append(decoders, NewDecoder(file))
            /\ taskPc' = "swap"
            /\ UNCHANGED <<mxW, cyc, tasks, errClosed, errCloses>>
       ELSE /\ taskPc' = "exited"
            /\ tasks' = tasks - 1
            /\ errClosed' = TRUE
            /\ errCloses' = errCloses + 1
            /\ mxW' = "none"
            /\ cyc' = [cyc EXCEPT !.outcome = "openfail"]
            /\ UNCHANGED decoders
    /\ UNCHANGED <<errBuf, ctorIn, built, ctorLog, file, dbdb, mxR, cancelled,
                   cycles, rd, closePc, closeCalls, closeDone, closeRet, crashed>>
    /\ UNCHANGED <<hVars, pVars, gVars>>

\* r, err := geoip2.Open(filePath); on error as above
TaskOpen ==
    /\ taskPc = "open"
    /\ IF CanOpen(file)
       THEN /\ decoders' = Append(decoders, NewDecoder(file))
            /\ taskPc' = "swap"
            /\ UNCHANGED <<mxW, cyc>>
       ELSE /\ taskPc' = "select"
            /\ mxW' = "none"
            /\ cyc' = [cyc EXCEPT !.outcome = "openfail"]
            /\ UNCHANGED decoders
    /\ UNCHANGED <<errBuf, ctorIn, built, ctorLog, file, dbdb, mxR, cancelled,
                   errClosed, errCloses, tasks, cycles, rd, closePc,
                   closeCalls, closeDone, closeRet, crashed>>
    /\ UNCHANGED <<hVars, pVars, gVars>>

\* the swap that drops the replaced decoder without closing it
TaskSwapNoClose ==
    /\ taskPc = "swap"
    /\ dbdb' = Len(decoders)
    /\ mxW' = "none"
    /\ taskPc' = "select"
    /\ cyc' = [cyc EXCEPT !.outcome = "ok"]
    /\ UNCHANGED <<errBuf, ctorIn, built, ctorLog, file, decoders, mxR, cancelled,
                   errClosed, errCloses, tasks, cycles, rd, closePc, closeCalls,
                   closeDone, closeRet, crashed>>
    /\ UNCHANGED <<hVars, pVars, gVars>>

\* _ = db.db.Close(); db.db = r; return nil (the deferred Unlock runs)
TaskSwap ==
    /\ taskPc = "swap"
    /\ decoders' = CloseDecoderAt(decoders, dbdb)
    /\ dbdb' = Len(decoders)
    /\ mxW' = "none"
    /\ taskPc' = "select"
    /\ cyc' = [cyc EXCEPT !.outcome = "ok"]
    /\ UNCHANGED <<errBuf, ctorIn, built, ctorLog, file, mxR, cancelled, errClosed,
                   errCloses, tasks, cycles, rd, closePc, closeCalls,
                   closeDone, closeRet, crashed>>
    /\ UNCHANGED <<hVars, pVars, gVars>>

\* the goroutine returning without the deferred close(db.err)
TaskExitNoClose ==
    /\ taskPc = "select"
    /\ cancelled
    /\ taskPc' = "exited"
    /\ tasks' = tasks - 1
    /\ UNCHANGED <<errClosed, errCloses>>
    /\ UNCHANGED <<errBuf, ctorIn, built, ctorLog, file, decoders, dbdb, mxW, mxR,
                   cancelled, cycles, cyc, rd, closePc, closeCalls, closeDone,
                   closeRet, crashed>>
    /\ UNCHANGED <<hVars, pVars, gVars>>

\* case <-ctx.Done(): return; the deferred close(db.err) and ticker.Stop() run
TaskExit ==
    /\ taskPc = "select"
    /\ cancelled
    /\ taskPc' = "exited"
    /\ tasks' = tasks - 1
    /\ errClosed' = TRUE
    /\ errCloses' = errCloses + 1
    /\ UNCHANGED <<errBuf, ctorIn, built, ctorLog, file, decoders, dbdb, mxW, mxR,
                   cancelled, cycles, cyc, rd, closePc, closeCalls, closeDone,
                   closeRet, crashed>>
    /\ UNCHANGED <<hVars, pVars, gVars>>

\* ------------------------------------------------------- ASN, City, Country
\* a caller enters db.ASN, db.City or db.Country (the three differ only in the
\* decoder method they call) and asks for the read lock
LookupCall(r) ==
    /\ built = "ok"
    /\ ~crashed
    /\ rd[r].pc = "idle"
    /\ rd' = [rd EXCEPT ![r] = [IdleReader EXCEPT !.pc = "rlock",
                                                  !.afterClose = closeDone > 0]]
    /\ UNCHANGED <<errBuf, ctorIn, built, ctorLog, file, decoders, dbdb, mxW, mxR,
                   cancelled, errClosed, errCloses, taskPc, tasks, cycles, cyc,
                   closePc, closeCalls, closeDone, closeRet, crashed>>
    /\ UNCHANGED <<hVars, pVars, gVars>>

\* RLock that is granted while a writer holds or waits for the lock
RLockAcquireNoWait(r) ==
    /\ rd[r].pc = "rlock"
    /\ mxR' = mxR \cup {r}
    /\ rd' = [rd EXCEPT ![r].pc = "locked"]
    /\ UNCHANGED <<errBuf, ctorIn, built, ctorLog, file, decoders, dbdb, mxW, cancelled,
                   errClosed, errCloses, taskPc, tasks, cycles, cyc, closePc,
                   closeCalls, closeDone, closeRet, crashed>>
    /\ UNCHANGED <<hVars, pVars, gVars>>

\* db.mx.RLock() returns: no writer holds the lock and none is waiting for it
RLockAcquire(r) ==
    /\ rd[r].pc = "rlock"
    /\ mxW = "none"
    /\ taskPc # "lock"
    /\ closePc # "lock"
    /\ mxR' = mxR \cup {r}
    /\ rd' = [rd EXCEPT ![r].pc = "locked"]
    /\ UNCHANGED <<errBuf, ctorIn, built, ctorLog, file, decoders, dbdb, mxW, cancelled,
                   errClosed, errCloses, taskPc, tasks, cycles, cyc, closePc,
                   closeCalls, closeDone, closeRet, crashed>>
    /\ UNCHANGED <<hVars, pVars, gVars>>

\* db.db.X(ip) starts: db.db is read and dereferenced; a nil db.db panics
\* (the deferred RUnlock still runs)
LookupRead(r) ==
    /\ rd[r].pc = "locked"
    /\ IF dbdb = NoDecoder
       THEN /\ rd' = [rd EXCEPT ![r].pc = "idle", ![r].res = "panic"]
            /\ mxR' = mxR \ {r}
            /\ crashed' = TRUE
       ELSE /\ rd' = [rd EXCEPT ![r].pc = "reading", ![r].p = dbdb,
                                ![r].open0 = (decoders[dbdb].st = "open")]
            /\ UNCHANGED <<mxR, crashed>>
    /\ UNCHANGED <<errBuf, ctorIn, built, ctorLog, file, decoders, dbdb, mxW, cancelled,
                   errClosed, errCloses, taskPc, tasks, cycles, cyc, closePc,
                   closeCalls, closeDone, closeRet>>
    /\ UNCHANGED <<hVars, pVars, gVars>>

\* what the decoder p returns to a lookup that found it open0 when it started:
\* a closed decoder returns an error; one closed under the lookup is a read of
\* unmapped memory
LookupResults(p, open0) ==
    IF decoders[p].st = "open" THEN Answers
    ELSE IF open0 THEN Answers \cup {"panic"}
    ELSE {"err"}

\* db.db.X(ip) returns and the deferred RUnlock runs
LookupReturn(r) ==
    /\ rd[r].pc = "reading"
    /\ \E a \in LookupResults(rd[r].p, rd[r].open0) :
         /\ rd' = [rd EXCEPT ![r].pc = "idle", ![r].res = a,
                              ![r].p = NoDecoder, ![r].open0 = FALSE]
         /\ crashed' = (crashed \/ a = "panic")
    /\ mxR' = mxR \ {r}
    /\ UNCHANGED <<errBuf, ctorIn, built, ctorLog, file, decoders, dbdb, mxW, cancelled,
                   errClosed, errCloses, taskPc, tasks, cycles, cyc, closePc,
                   closeCalls, closeDone, closeRet>>
    /\ UNCHANGED <<hVars, pVars, gVars>>

\* -------------------------------------------------------------------- Close
\* db.cancel(); then the caller waits on <-db.err
CloseCall ==
    /\ built = "ok"
    /\ ~crashed
    /\ closePc = "idle"
    /\ closeCalls < MaxCloseCalls
    /\ closeCalls' = closeCalls + 1
    /\ cancelled' = TRUE
    /\ closePc' = "recv"
    /\ UNCHANGED <<errBuf, ctorIn, built, ctorLog, file, decoders, dbdb, mxW, mxR,
                   errClosed, errCloses, taskPc, tasks, cycles, cyc, rd,
                   closeDone, closeRet, crashed>>
    /\ UNCHANGED <<hVars, pVars, gVars>>

\* Close going on to the lock without waiting for db.err
CloseRecvNoWait ==
    /\ closePc = "recv"
    /\ closeRet' = "nil"
    /\ closePc' = "lock"
    /\ UNCHANGED <<errBuf, ctorIn, built, ctorLog, file, decoders, dbdb, mxW, mxR,
                   cancelled, errClosed, errCloses, taskPc, tasks, cycles, cyc,
                   rd, closeCalls, closeDone, crashed>>
    /\ UNCHANGED <<hVars, pVars, gVars>>

\* err := <-db.err: the receive takes a buffered error if there is one, and
\* returns nil once the channel is closed and empty; nothing is ever sent on
\* db.err. Then db.mx.Lock() is asked for
CloseRecv ==
    /\ closePc = "recv"
    /\ errBuf # <<>> \/ errClosed
    /\ IF errBuf # <<>>
       THEN closeRet' = Head(errBuf) /\ errBuf' = Tail(errBuf)
       ELSE closeRet' = "nil" /\ UNCHANGED errBuf
    /\ closePc' = "lock"
    /\ UNCHANGED <<ctorIn, built, ctorLog, file, decoders, dbdb, mxW, mxR,
                   cancelled, errClosed, errCloses, taskPc, tasks, cycles, cyc,
                   rd, closeCalls, closeDone, crashed>>
    /\ UNCHANGED <<hVars, pVars, gVars>>

\* db.mx.Lock() returns
CloseLockAcquire ==
    /\ closePc = "lock"
    /\ mxW = "none"
    /\ mxR = {}
    /\ mxW' = "close"
    /\ closePc' = "locked"
    /\ UNCHANGED <<errBuf, ctorIn, built, ctorLog, file, decoders, dbdb, mxR, cancelled,
                   errClosed, errCloses, taskPc, tasks, cycles, cyc, rd,
                   closeCalls, closeDone, closeRet, crashed>>
    /\ UNCHANGED <<hVars, pVars, gVars>>

\* Close that also resets db.db to nil
CloseDecoderAndNil ==
    /\ closePc = "locked"
    /\ decoders' = CloseDecoderAt(decoders, dbdb)
    /\ dbdb' = NoDecoder
    /\ mxW' = "none"
    /\ closePc' = "idle"
    /\ closeDone' = closeDone + 1
    /\ UNCHANGED <<errBuf, ctorIn, built, ctorLog, file, mxR, cancelled,
                   errClosed, errCloses, taskPc, tasks, cycles, cyc, rd,
                   closeCalls, closeRet, crashed>>
    /\ UNCHANGED <<hVars, pVars, gVars>>

\* _ = db.db.Close(); return err (the deferred Unlock runs)
CloseDecoder ==
    /\ closePc = "locked"
    /\ decoders' = CloseDecoderAt(decoders, dbdb)
    /\ mxW' = "none"
    /\ closePc' = "idle"
    /\ closeDone' = closeDone + 1
    /\ UNCHANGED <<errBuf, ctorIn, built, ctorLog, file, dbdb, mxR, cancelled,
                   errClosed, errCloses, taskPc, tasks, cycles, cyc, rd,
                   closeCalls, closeRet, crashed>>
    /\ UNCHANGED <<hVars, pVars, gVars>>

\* ------------------------------------------------------------ specification
NextDb ==
    \/ NewDatabase
    \/ TaskTick
    \/ TaskLockAcquire
    \/ \E out \in FetchOutcomes : TaskFetch(out)
    \/ TaskOpen
    \/ TaskSwap
    \/ TaskExit
    \/ \E r \in Readers : LookupCall(r)
    \/ \E r \in Readers : RLockAcquire(r)
    \/ \E r \in Readers : LookupRead(r)
    \/ \E r \in Readers : LookupReturn(r)
    \/ CloseCall
    \/ CloseRecv
    \/ CloseLockAcquire
    \/ CloseDecoder


\* ================================================================== Handler
Kinds == {"City", "Country", "ASN"}
Editions == <<"GeoLite2-City", "GeoLite2-Country", "GeoLite2-ASN">>

CountryKeys == {"geoip2.country_code", "geoip2.country_name", "geoip2.country_eu",
                "geoip2.continent_code", "geoip2.content_name"}
\* the Country variables the README documents
ReadmeCountryKeys == {"geoip2.country_code", "geoip2.country_name", "geoip2.country_eu",
                      "geoip2.continent_code", "geoip2.continent_name"}
CityKeys == {"geoip2.city_name", "geoip2.postal_code"}
LocationKeys == {"geoip2.location_latitude", "geoip2.location_longitude",
                 "geoip2.location_timezone", "geoip2.location_accuracy_radius"}
ASNKeys == {"geoip2.asn_network", "geoip2.asn_organisation", "geoip2.asn_system_number"}

\* a request: the TLS state and what the client address variable holds
Requests == [tls : {"none", "complete", "incomplete"},
             addr : {"valid", "garbage", "unspecified"}]

\* ClientIP: an incomplete handshake gives the unspecified address and an
\* HTTP 425 error; an address that does not parse gives the unspecified
\* address and the parse error
ClientIP(req) ==
    IF req.tls = "incomplete" THEN [ip |-> "unspecified", err |-> "425"]
    ELSE IF req.addr = "garbage" THEN [ip |-> "unspecified", err |-> "parse"]
    ELSE [ip |-> req.addr, err |-> "nil"]

\* a loop that publishes whatever record the first answering handle returns
RECURSIVE lookupLoopNoHasData(_, _, _)
lookupLoopNoHasData(ans, i, q) ==
    IF i > Len(ans) THEN [queried |-> q, src |-> 0]
    ELSE IF ans[i] = "err" THEN lookupLoopNoHasData(ans, i + 1, Append(q, i))
    ELSE [queried |-> Append(q, i), src |-> i]

\* a loop that goes on to the next handle after a record without data
RECURSIVE lookupLoopPastNoData(_, _, _)
lookupLoopPastNoData(ans, i, q) ==
    IF i > Len(ans) THEN [queried |-> q, src |-> 0]
    ELSE IF ans[i] # "data" THEN lookupLoopPastNoData(ans, i + 1, Append(q, i))
    ELSE [queried |-> Append(q, i), src |-> i]

\* for _, db := range m.state.databases: continue on an error, break after
\* the first handle that returns a record, publish it if it has data
RECURSIVE lookupLoop(_, _, _)
lookupLoop(ans, i, q) ==
    IF i > Len(ans) THEN [queried |-> q, src |-> 0]
    ELSE IF ans[i] = "err" THEN lookupLoop(ans, i + 1, Append(q, i))
    ELSE [queried |-> Append(q, i), src |-> IF ans[i] = "data" THEN i ELSE 0]

lookupCountry(ans) ==
    LET l == lookupLoop(ans, 1, <<>>)
    IN  [queried |-> l.queried, src |-> l.src,
         keys |-> IF l.src # 0 THEN CountryKeys ELSE {}]

\* loc: rec.Location.HasData() of the record published
lookupCity(ans, loc) ==
    LET l == lookupLoop(ans, 1, <<>>)
    IN  [queried |-> l.queried, src |-> l.src,
         keys |-> IF l.src # 0
                  THEN CityKeys \cup (IF loc THEN LocationKeys ELSE {})
                  ELSE {}]

lookupASN(ans) ==
    LET l == lookupLoop(ans, 1, <<>>)
    IN  [queried |-> l.queried, src |-> l.src,
         keys |-> IF l.src # 0 THEN ASNKeys ELSE {}]

NothingBound == [keys |-> {}, src |-> [k \in Kinds |-> 0],
                 queried |-> [k \in Kinds |-> <<>>]]

\* bind: the error of ClientIP is dropped; an unspecified address binds nothing
bind(req, answers, loc) ==
    LET c == ClientIP(req)
    IN  IF c.ip = "unspecified" THEN NothingBound
        ELSE LET ci == lookupCity(answers["City"], loc)
                 co == lookupCountry(answers["Country"])
                 as == lookupASN(answers["ASN"])
             IN  [keys |-> ci.keys \cup co.keys \cup as.keys,
                  src |-> [k \in Kinds |-> IF k = "City" THEN ci.src
                                           ELSE IF k = "Country" THEN co.src
                                           ELSE as.src],
                  queried |-> [k \in Kinds |-> IF k = "City" THEN ci.queried
                                               ELSE IF k = "Country" THEN co.queried
                                               ELSE as.queried]]

HandleSets ==
    UNION {[n : {n}, answers : [Kinds -> [1..n -> Answers]]] : n \in 0..Len(Editions)}

InitHandlerWith(in) ==
    /\ hIn = in
    /\ hPc = "idle"
    /\ hReq = [tls |-> "none", addr |-> "valid"]
    /\ repl = {}
    /\ hSrc = [k \in Kinds |-> 0]
    /\ hQueried = [k \in Kinds |-> <<>>]
    /\ hRet = "-"

InitHandler == \E in \in HandleSets : InitHandlerWith(in)

\* ServeHTTP: m.bind(r, repl); return next.ServeHTTP(w, r)
ServeHTTP(req, loc) ==
    /\ hPc = "idle"
    /\ LET b == bind(req, hIn.answers, loc)
       IN  /\ repl' = b.keys
           /\ hSrc' = b.src
           /\ hQueried' = b.queried
    /\ hReq' = req
    /\ hRet' = "next"
    /\ hPc' = "done"
    /\ UNCHANGED hIn
    /\ UNCHANGED <<dbVars, pVars, gVars>>

NextHandler ==
    \E req \in Requests, loc \in BOOLEAN : ServeHTTP(req, loc)

\* ============================================================ GeoIp2 (app)
DefaultUpdateFrequency == 604800
DefaultEditions == <<"GeoLite2-City", "GeoLite2-ASN">>
EditionNames == {Editions[i] : i \in 1..Len(Editions)}

\* AccountID: empty, a number, or not a number
AccountIDs == {"", "num", "nan"}

Configs ==
    [account : AccountIDs, license : BOOLEAN, freq : {0 - 1, 0, 1},
     n : 0..Len(Editions), files : [EditionNames -> InitialFiles]]

InitAppWith(in) ==
    /\ pIn = in
    /\ pPc = "new"
    /\ pCfg = [hasConfig |-> FALSE, freq |-> 0, editions |-> <<>>]
    /\ pFiles = in.files
    /\ databases = <<>>
    /\ pIdx = 0
    /\ pRet = "-"

InitApp == \E in \in Configs : InitAppWith(in)

\* Provision up to the loop: the defaults, and the updater config when both
\* the account id and the license key are set
ProvisionBegin ==
    /\ pPc = "new"
    /\ LET freq == IF pIn.freq = 0 THEN DefaultUpdateFrequency ELSE pIn.freq
           eds  == IF pIn.n = 0 THEN DefaultEditions ELSE SubSeq(Editions, 1, pIn.n)
           creds == pIn.account # "" /\ pIn.license
       IN  /\ pCfg' = [hasConfig |-> creds /\ pIn.account = "num", freq |-> freq,
                       editions |-> eds]
           /\ IF creds /\ pIn.account = "nan"
              THEN pPc' = "failed" /\ pRet' = "err" /\ pIdx' = 0
              ELSE pPc' = "loop" /\ pRet' = "-" /\ pIdx' = 1
    /\ UNCHANGED <<pIn, pFiles, databases>>
    /\ UNCHANGED <<dbVars, hVars, gVars>>

\* one iteration of for _, edition := range g.EditionID, and the return nil
\* after the last one
ProvisionEdition(out) ==
    /\ pPc = "loop"
    /\ LET ed  == pCfg.editions[pIdx]
           res == NewDatabaseResult(pCfg.hasConfig, pCfg.freq, pFiles[ed], out)
       IN  /\ pFiles' = [pFiles EXCEPT ![ed] = res.file]
           /\ IF res.ok
              THEN /\ databases' = Append(databases,
                          [edition |-> ed, task |-> res.task, open |-> TRUE, closes |-> 0,
                           ret |-> "-"])
                   /\ pIdx' = pIdx + 1
                   /\ IF pIdx = Len(pCfg.editions)
                      THEN pPc' = "ok" /\ pRet' = "nil"
                      ELSE UNCHANGED <<pPc, pRet>>
              ELSE /\ pPc' = "failed"
                   /\ pRet' = "err"
                   /\ UNCHANGED <<databases, pIdx>>
    /\ UNCHANGED <<pIn, pCfg>>
    /\ UNCHANGED <<dbVars, hVars, gVars>>

\* db.Close() as a whole: the goroutine is cancelled and waited for, the
\* decoder is closed, and the value received from the closed err channel,
\* nil, is returned (ret)
CloseHandle(h) ==
    [h EXCEPT !.task = FALSE, !.open = FALSE, !.closes = @ + 1, !.ret = "nil"]

\* Destruct is called
DestructCall ==
    /\ pPc \in {"ok", "failed"}
    /\ pPc' = "destructing"
    /\ pIdx' = 1
    /\ pRet' = "-"
    /\ UNCHANGED <<pIn, pCfg, pFiles, databases>>
    /\ UNCHANGED <<dbVars, hVars, gVars>>

\* a Destruct that returns after the first Close
DestructStepStopsEarly ==
    /\ pPc = "destructing"
    /\ IF pIdx <= Len(databases) /\ pIdx = 1
       THEN /\ databases' = [databases EXCEPT ![pIdx] = CloseHandle(@)]
            /\ pIdx' = pIdx + 1
            /\ UNCHANGED <<pPc, pRet>>
       ELSE /\ pPc' = "destructed"
            /\ pRet' = "nil"
            /\ UNCHANGED <<databases, pIdx>>
    /\ UNCHANGED <<pIn, pCfg, pFiles>>
    /\ UNCHANGED <<dbVars, hVars, gVars>>

\* one iteration of for _, db := range g.databases { _ = db.Close() }, or
\* the return nil after the last one
DestructStep ==
    /\ pPc = "destructing"
    /\ IF pIdx <= Len(databases)
       THEN /\ databases' = [databases EXCEPT ![pIdx] = CloseHandle(@)]
            /\ pIdx' = pIdx + 1
            /\ UNCHANGED <<pPc, pRet>>
       ELSE /\ pPc' = "destructed"
            /\ pRet' = "nil"
            /\ UNCHANGED <<databases, pIdx>>
    /\ UNCHANGED <<pIn, pCfg, pFiles>>
    /\ UNCHANGED <<dbVars, hVars, gVars>>

NextApp ==
    \/ ProvisionBegin
    \/ \E out \in FetchOutcomes : ProvisionEdition(out)
    \/ DestructCall
    \/ DestructStep

\* ====================================================== legacy GeoIp2 app
\* UpdateFrequency is an int: negative, zero or positive
GFrequencies == {0 - 1, 0, 1}
\* how a run of update() goes when it fetches: the download fails, the commit
\* fails, or the file is replaced by one that opens or by one that does not
GUpdateOutcomes == {"fetchfail", "commitfail", "valid", "invalid"}

GIdleReader == [pc |-> "idle", res |-> "-"]

\* the body of update() under g.mx.Lock(): with an account id and a license
\* key the database is fetched, the old reader is closed and g.db set to nil,
\* the writer is committed; then, unless g.db is still set, the file is opened
\* and g.db is what maxminddb.Open returns (nil with an error)
gUpdate(creds, f, ds, d, out) ==
    IF creds
    THEN IF out = "fetchfail"
         THEN [err |-> TRUE, file |-> f, decoders |-> ds, db |-> d]
         ELSE LET ds1 == IF d # NoDecoder THEN CloseDecoderAt(ds, d) ELSE ds
                  f1  == [st |-> out, ver |-> f.ver + 1]
              IN  IF out = "commitfail"
                  THEN [err |-> TRUE, file |-> f, decoders |-> ds1, db |-> NoDecoder]
                  ELSE IF CanOpen(f1)
                  THEN [err |-> FALSE, file |-> f1,
                        decoders |-> Append(ds1, NewDecoder(f1)), db |-> Len(ds1) + 1]
                  ELSE [err |-> TRUE, file |-> f1, decoders |-> ds1, db |-> NoDecoder]
    ELSE IF d # NoDecoder
         THEN [err |-> FALSE, file |-> f, decoders |-> ds, db |-> d]
         ELSE IF CanOpen(f)
         THEN [err |-> FALSE, file |-> f,
               decoders |-> Append(ds, NewDecoder(f)), db |-> Len(ds) + 1]
         ELSE [err |-> TRUE, file |-> f, decoders |-> ds, db |-> NoDecoder]

\* after Provision has returned nil: the context and the exit channel exist
InitLegacyWith(in) ==
    /\ gIn = in
    /\ gStart = "no"
    /\ gFile = in.file
    /\ gDecoders = <<>>
    /\ gDb = NoDecoder
    /\ gMxW = "none"
    /\ gMxR = {}
    /\ gCancelled = FALSE
    /\ gExit = [buf |-> <<>>, closed |-> FALSE]
    /\ gTaskPc = "none"
    /\ gCycles = 0
    /\ gLast = "none"
    /\ gRd = [r \in Readers |-> GIdleReader]
    /\ gStop = [pc |-> "idle", ret |-> "-", last |-> "none"]
    /\ gDestruct = "no"

InitLegacy ==
    \E in \in [creds : BOOLEAN, freq : GFrequencies, file : InitialFiles] :
        InitLegacyWith(in)

\* Start: the first update, then the goroutine if UpdateFrequency > 0, else
\* close(g.exit); when the first update fails Start returns its error and
\* leaves g.exit as it is
GStart(out) ==
    /\ gStart = "no"
    /\ gStop.pc = "idle"
    /\ LET u == gUpdate(gIn.creds, gFile, gDecoders, gDb, out)
       IN  /\ gFile' = u.file
           /\ gDecoders' = u.decoders
           /\ gDb' = u.db
           /\ IF u.err
              THEN /\ gStart' = "failed"
                   /\ UNCHANGED <<gTaskPc, gExit>>
              ELSE /\ gStart' = "ok"
                   /\ IF gIn.freq > 0
                      THEN gTaskPc' = "select" /\ UNCHANGED gExit
                      ELSE gExit' = [gExit EXCEPT !.closed = TRUE] /\ UNCHANGED gTaskPc
    /\ UNCHANGED <<gIn, gMxW, gMxR, gCancelled, gCycles, gLast, gRd, gStop, gDestruct>>
    /\ UNCHANGED <<dbVars, hVars, pVars>>

\* case <-ticker.C: g.update() is called and asks for the write lock
GTick ==
    /\ gTaskPc = "select"
    /\ gCycles < MaxCycles
    /\ gTaskPc' = "lock"
    /\ gCycles' = gCycles + 1
    /\ UNCHANGED <<gIn, gStart, gFile, gDecoders, gDb, gMxW, gMxR, gCancelled,
                   gExit, gLast, gRd, gStop, gDestruct>>
    /\ UNCHANGED <<dbVars, hVars, pVars>>

\* g.mx.Lock() in update() returns
GLock ==
    /\ gTaskPc = "lock"
    /\ gMxW = "none"
    /\ gMxR = {}
    /\ gMxW' = "task"
    /\ gTaskPc' = "update"
    /\ UNCHANGED <<gIn, gStart, gFile, gDecoders, gDb, gMxR, gCancelled, gExit,
                   gCycles, gLast, gRd, gStop, gDestruct>>
    /\ UNCHANGED <<dbVars, hVars, pVars>>

\* update() runs and returns (the deferred Unlock runs); on an error the
\* goroutine goes on to g.exit <- err
GUpdate(out) ==
    /\ gTaskPc = "update"
    /\ LET u == gUpdate(gIn.creds, gFile, gDecoders, gDb, out)
       IN  /\ gFile' = u.file
           /\ gDecoders' = u.decoders
           /\ gDb' = u.db
           /\ gLast' = IF u.err THEN "fail" ELSE "ok"
           /\ gTaskPc' = IF u.err THEN "send" ELSE "select"
    /\ gMxW' = "none"
    /\ UNCHANGED <<gIn, gStart, gMxR, gCancelled, gExit, gCycles, gRd, gStop,
                   gDestruct>>
    /\ UNCHANGED <<dbVars, hVars, pVars>>

\* g.exit <- err completes: there is room in the buffer
GSend ==
    /\ gTaskPc = "send"
    /\ Len(gExit.buf) < ExitCapacity
    /\ gExit' = [gExit EXCEPT !.buf = Append(@, "err")]
    /\ gTaskPc' = "select"
    /\ UNCHANGED <<gIn, gStart, gFile, gDecoders, gDb, gMxW, gMxR, gCancelled,
                   gCycles, gLast, gRd, gStop, gDestruct>>
    /\ UNCHANGED <<dbVars, hVars, pVars>>

\* case <-g.ctx.Done(): return; the deferred ticker.Stop() and close(g.exit) run
GExit ==
    /\ gTaskPc = "select"
    /\ gCancelled
    /\ gTaskPc' = "exited"
    /\ gExit' = [gExit EXCEPT !.closed = TRUE]
    /\ UNCHANGED <<gIn, gStart, gFile, gDecoders, gDb, gMxW, gMxR, gCancelled,
                   gCycles, gLast, gRd, gStop, gDestruct>>
    /\ UNCHANGED <<dbVars, hVars, pVars>>

\* a request handler calls Lookup and asks for the read lock
GLookupCall(r) ==
    /\ gStart = "ok"
    /\ gDestruct = "no"
    /\ gRd[r].pc = "idle"
    /\ gRd' = [gRd EXCEPT ![r] = [pc |-> "rlock", res |-> "-"]]
    /\ UNCHANGED <<gIn, gStart, gFile, gDecoders, gDb, gMxW, gMxR, gCancelled,
                   gExit, gTaskPc, gCycles, gLast, gStop, gDestruct>>
    /\ UNCHANGED <<dbVars, hVars, pVars>>

\* g.mx.RLock() returns: no writer holds the lock and none is waiting for it
GRLock(r) ==
    /\ gRd[r].pc = "rlock"
    /\ gMxW = "none"
    /\ gTaskPc # "lock"
    /\ gDestruct # "lock"
    /\ gMxR' = gMxR \cup {r}
    /\ gRd' = [gRd EXCEPT ![r].pc = "locked"]
    /\ UNCHANGED <<gIn, gStart, gFile, gDecoders, gDb, gMxW, gCancelled, gExit,
                   gTaskPc, gCycles, gLast, gStop, gDestruct>>
    /\ UNCHANGED <<dbVars, hVars, pVars>>

\* g.db.Lookup(ip, &res) and the deferred RUnlock: a nil g.db panics, an open
\* reader returns a record or an error
GLookupReturn(r) ==
    /\ gRd[r].pc = "locked"
    /\ \E a \in (IF gDb = NoDecoder THEN {"panic"}
                 ELSE IF gDecoders[gDb].st = "open" THEN {"rec", "err"}
                 ELSE {"err"}) :
         gRd' = [gRd EXCEPT ![r] = [pc |-> "idle", res |-> a]]
    /\ gMxR' = gMxR \ {r}
    /\ UNCHANGED <<gIn, gStart, gFile, gDecoders, gDb, gMxW, gCancelled, gExit,
                   gTaskPc, gCycles, gLast, gStop, gDestruct>>
    /\ UNCHANGED <<dbVars, hVars, pVars>>

\* Stop: g.cancel(), then the caller waits on <-g.exit
GStopCall ==
    /\ gStop.pc = "idle"
    /\ gCancelled' = TRUE
    /\ gStop' = [gStop EXCEPT !.pc = "recv"]
    /\ UNCHANGED <<gIn, gStart, gFile, gDecoders, gDb, gMxW, gMxR, gExit,
                   gTaskPc, gCycles, gLast, gRd, gDestruct>>
    /\ UNCHANGED <<dbVars, hVars, pVars>>

\* return <-g.exit: a buffered error is received, or nil once the channel is
\* closed and empty
GStopRecv ==
    /\ gStop.pc = "recv"
    /\ gExit.buf # <<>> \/ gExit.closed
    /\ IF gExit.buf # <<>>
       THEN /\ gStop' = [pc |-> "done", ret |-> Head(gExit.buf), last |-> gLast]
            /\ gExit' = [gExit EXCEPT !.buf = Tail(@)]
       ELSE /\ gStop' = [pc |-> "done", ret |-> "nil", last |-> gLast]
            /\ UNCHANGED gExit
    /\ UNCHANGED <<gIn, gStart, gFile, gDecoders, gDb, gMxW, gMxR, gCancelled,
                   gTaskPc, gCycles, gLast, gRd, gDestruct>>
    /\ UNCHANGED <<dbVars, hVars, pVars>>

\* Destruct is called once Stop has returned, and asks for the write lock
GDestructCall ==
    /\ gStop.pc = "done"
    /\ gDestruct = "no"
    /\ gDestruct' = "lock"
    /\ UNCHANGED <<gIn, gStart, gFile, gDecoders, gDb, gMxW, gMxR, gCancelled,
                   gExit, gTaskPc, gCycles, gLast, gRd, gStop>>
    /\ UNCHANGED <<dbVars, hVars, pVars>>

\* g.mx.Lock() returns; if g.db != nil it is closed and set to nil; return nil
\* (the deferred Unlock runs)
GDestruct ==
    /\ gDestruct = "lock"
    /\ gMxW = "none"
    /\ gMxR = {}
    /\ gDecoders' = IF gDb # NoDecoder THEN CloseDecoderAt(gDecoders, gDb) ELSE gDecoders
    /\ gDb' = NoDecoder
    /\ gDestruct' = "done"
    /\ UNCHANGED <<gIn, gStart, gFile, gMxW, gMxR, gCancelled, gExit, gTaskPc,
                   gCycles, gLast, gRd, gStop>>
    /\ UNCHANGED <<dbVars, hVars, pVars>>

NextLegacy ==
    \/ \E out \in GUpdateOutcomes : GStart(out)
    \/ GTick
    \/ GLock
    \/ \E out \in GUpdateOutcomes : GUpdate(out)
    \/ GSend
    \/ GExit
    \/ \E r \in Readers : GLookupCall(r)
    \/ \E r \in Readers : GRLock(r)
    \/ \E r \in Readers : GLookupReturn(r)
    \/ GStopCall
    \/ GStopRecv
    \/ GDestructCall
    \/ GDestruct

\* ---------------------------------------------------------- specifications
\* the part of the state a specification does not move
DbAtRest ==
    InitDbWith([config |-> FALSE, updateEvery |-> 0, file |-> AbsentFile])

HandlerAtRest ==
    InitHandlerWith([n |-> 0, answers |-> [k \in Kinds |-> <<>>]])

AppAtRest ==
    InitAppWith([account |-> "", license |-> FALSE, freq |-> 0, n |-> 0,
                 files |-> [e \in EditionNames |-> AbsentFile]])

LegacyAtRest ==
    InitLegacyWith([creds |-> FALSE, freq |-> 0, file |-> AbsentFile])

\* the scheduling the Go runtime gives SpecDb: a goroutine that can run does
\* run (every fetch and open returns, a lock that stays free is granted, a
\* lookup returns), and a select that has ctx.Done() ready again and again
\* takes that case in the end
FairDb ==
    /\ WF_vars(TaskLockAcquire)
    /\ WF_vars(\E out \in FetchOutcomes : TaskFetch(out))
    /\ WF_vars(TaskOpen)
    /\ WF_vars(TaskSwap)
    /\ SF_vars(TaskExit)
    /\ \A r \in Readers : WF_vars(LookupRead(r)) /\ WF_vars(LookupReturn(r))
    /\ WF_vars(CloseRecv)
    /\ WF_vars(CloseLockAcquire)
    /\ WF_vars(CloseDecoder)

InitSpecDb == InitDb /\ HandlerAtRest /\ AppAtRest /\ LegacyAtRest
InitSpecHandler == InitHandler /\ DbAtRest /\ AppAtRest /\ LegacyAtRest
InitSpecApp == InitApp /\ DbAtRest /\ HandlerAtRest /\ LegacyAtRest
InitSpecLegacy == InitLegacy /\ DbAtRest /\ HandlerAtRest /\ AppAtRest

SpecDb == InitSpecDb /\ [][NextDb]_vars
SpecDbFair == InitSpecDb /\ [][NextDb]_vars /\ FairDb
SpecHandler == InitSpecHandler /\ [][NextHandler]_vars
SpecApp == InitSpecApp /\ [][NextApp]_vars
SpecLegacy == InitSpecLegacy /\ [][NextLegacy]_vars

\* ------------------------------------------------------------------- claims
InLookup(r) == rd[r].pc \in {"locked", "reading"}

\* C1: before Close is called, every lookup in progress holds the read lock
\* on a db.db that is not nil, is open, and is the decoder the lookup started
\* on; no lookup panics.
C1_LookupOnOneOpenDecoder ==
    closeCalls = 0 =>
      \A r \in Readers :
        /\ rd[r].res # "panic"
        /\ InLookup(r) => /\ r \in mxR
                          /\ mxW = "none"
                          /\ dbdb # NoDecoder
                          /\ decoders[dbdb].st = "open"
        /\ rd[r].pc = "reading" => rd[r].p = dbdb /\ rd[r].open0

\* two lookups are reading the swapped-in decoder while the next refresh
\* cycle waits for the lock
C1_Witness ==
    /\ closeCalls = 0
    /\ \A r \in Readers : rd[r].pc = "reading" /\ rd[r].p = 2
    /\ taskPc = "lock"

\* C2: a lookup that asks for the read lock while the refresh task fetches
\* or opens takes it without waiting (the task holds the write lock for the
\* pointer replacement alone).
C2_FetchOutsideLock ==
    \A r \in Readers :
      (rd[r].pc = "rlock" /\ taskPc \in {"fetch", "open"}) => ENABLED RLockAcquire(r)

\* C3: after a refresh cycle that failed, and until the next cycle starts,
\* db.db is the decoder it was when the cycle started, that decoder is open
\* (until Close closes it), and lookups read that decoder.
C3_FailedRefreshKeepsDecoder ==
    cyc.outcome \in {"fetchfail", "openfail"} =>
      /\ dbdb = cyc.start
      /\ closeDone = 0 => decoders[dbdb].st = "open"
      /\ \A r \in Readers : rd[r].pc = "reading" => rd[r].p = cyc.start

\* a fetch succeeded, the open failed, and a lookup reads the decoder that an
\* earlier cycle had swapped in
C3_Witness ==
    /\ cyc.outcome = "openfail"
    /\ cyc.start = 2
    /\ closeDone = 0
    /\ \E r \in Readers : rd[r].pc = "reading" /\ rd[r].p = 2

\* C5: a lookup issued after Close has returned gets an error: no panic, no
\* record (with or without data).
C5_LookupAfterCloseFails ==
    \A r \in Readers : rd[r].afterClose => rd[r].res \in {"-", "err"}

C5_Witness ==
    \E r \in Readers : rd[r].afterClose /\ rd[r].pc = "idle" /\ rd[r].res = "err"

\* C7: with no update config or updateEvery = 0, a valid file at filePath
\* makes NewDatabase succeed; the handle never has a background goroutine,
\* db.err is closed from construction on (so Close never waits on it), and
\* Close returns nil.
C7_NoTaskWhenUpdatesOff ==
    (~ctorIn.config \/ ctorIn.updateEvery = 0) =>
      /\ (ctorIn.file.st = "valid" /\ built # "no") => built = "ok"
      /\ built = "ok" => /\ taskPc = "none"
                         /\ tasks = 0
                         /\ cycles = 0
                         /\ errClosed
                         /\ ctorLog[Len(ctorLog)] = "close"
                         /\ closeDone > 0 => closeRet = "nil"

C7_Witness ==
    /\ ~ctorIn.config
    /\ ctorIn.updateEvery = 0
    /\ ctorIn.file.st = "valid"
    /\ built = "ok"
    /\ closeDone = 1
    /\ closeRet = "nil"

\* C8: with no file at filePath and no update config NewDatabase fails after
\* the stat alone: no fetch, no open, no decoder, no goroutine.
C8_NoFileNoConfigFails ==
    (ctorIn.file.st = "absent" /\ ~ctorIn.config /\ built # "no") =>
      /\ built = "err"
      /\ ctorLog = <<"stat">>
      /\ file = ctorIn.file
      /\ decoders = <<>>
      /\ dbdb = NoDecoder
      /\ taskPc = "none"
      /\ tasks = 0

C8_Witness ==
    ctorIn.file.st = "absent" /\ ~ctorIn.config /\ built = "err"

\* C9: a handle built with an update config and updateEvery > 0 has exactly
\* one live background goroutine until Close is called.
C9_ExactlyOneTask ==
    (built = "ok" /\ ctorIn.config /\ ctorIn.updateEvery > 0 /\ closeCalls = 0) =>
      tasks = 1 /\ taskPc \notin {"none", "exited"}

\* the goroutine is back in its select after two cycles, the last one failed
C9_Witness ==
    /\ built = "ok" /\ ctorIn.config /\ ctorIn.updateEvery > 0 /\ closeCalls = 0
    /\ cycles = 2
    /\ cyc.outcome = "fetchfail"
    /\ taskPc = "select"
    /\ tasks = 1

\* C10: once Close is past its receive on db.err (asking for the lock, holding
\* it, or returned) the background goroutine has exited: no refresh cycle runs
\* at or after the moment Close closes the decoder.
C10_CloseAfterTaskExit ==
    (closePc \in {"lock", "locked"} \/ closeDone > 0) =>
      taskPc \in {"none", "exited"} /\ tasks = 0

\* Close was called during a refresh cycle and has closed the decoder
C10_Witness ==
    /\ closeDone = 1
    /\ taskPc = "exited"
    /\ cycles >= 1
    /\ decoders[dbdb].st = "closed"

\* the first handle, in order, whose answer is a record with data (0: none)
FirstWithData(ans) ==
    LET S == {i \in 1..Len(ans) : ans[i] = "data"}
    IN  IF S = {} THEN 0 ELSE CHOOSE i \in S : \A j \in S : i <= j

\* C4: for a request with a client address, each section is published from
\* the first handle that returns a record with data; handles that return an
\* error or a record without data are passed over.
C4_FirstHandleWithData ==
    (hPc = "done" /\ ClientIP(hReq).ip # "unspecified") =>
      \A k \in Kinds :
        /\ hSrc[k] = FirstWithData(hIn.answers[k])
        /\ (FirstWithData(hIn.answers[k]) # 0) =>
             (IF k = "Country" THEN CountryKeys
              ELSE IF k = "City" THEN CityKeys ELSE ASNKeys) \subseteq repl

\* C6: when Provision has returned the error of a failed NewDatabase, every
\* handle built before it is closed: no goroutine, no open decoder.
C6_FailedProvisionClosesBuilt ==
    pPc = "failed" =>
      \A i \in 1..Len(databases) : ~databases[i].open /\ ~databases[i].task

\* C11: with update_frequency 0 (or unset), no handle has a background refresh
\* goroutine after Provision, with or without credentials.
C11_ZeroFrequencyNoTask ==
    (pIn.freq = 0 /\ pPc = "ok") =>
      \A i \in 1..Len(databases) : ~databases[i].task

\* C12: when the country lookup published a record with data, every Country
\* variable of the README is set under its documented name, among them
\* geoip2.continent_name.
C12_ReadmeCountryKeysSet ==
    (hPc = "done" /\ hSrc["Country"] # 0) => ReadmeCountryKeys \subseteq repl

C14_NoDataPublishesNothing ==
    (hPc = "done" /\ \A k \in Kinds : \A i \in 1..hIn.n : hIn.answers[k][i] # "data") =>
      /\ repl = {}
      /\ \A k \in Kinds : hSrc[k] = 0
      /\ hRet = "next"

C14_Witness ==
    /\ hPc = "done"
    /\ ClientIP(hReq).ip = "valid"
    /\ hIn.n = 3
    /\ \A i \in 1..3 : hIn.answers["City"][i] = "err"
    /\ hIn.answers["Country"] = <<"err", "nodata", "err">>
    /\ hIn.answers["ASN"][1] = "nodata"
    /\ \A k \in Kinds : \A i \in 1..3 : hIn.answers[k][i] # "data"
    /\ Len(hQueried["City"]) = 3 /\ Len(hQueried["Country"]) = 2
    /\ repl = {} /\ hRet = "next"

\* C15: a failed refresh cycle is never handed to a caller: nothing is ever
\* buffered in db.err, every Close returns nil, and while the handle is not
\* closed a lookup is answered by an open decoder, so that an error it
\* returns is the decoder's answer for the address.
C15_RefreshFailureNotReturned ==
    /\ errBuf = <<>>
    /\ closeRet \in {"-", "nil"}
    /\ \A r \in Readers :
         (rd[r].pc = "reading" /\ closeDone = 0 /\ cyc.outcome \in {"fetchfail", "openfail"})
           => (rd[r].p = dbdb /\ decoders[dbdb].st = "open")

C15_Witness ==
    /\ cycles = 2
    /\ cyc.outcome = "fetchfail"
    /\ closeDone = 1
    /\ closeRet = "nil"
    /\ \E r \in Readers : rd[r].res \in Answers /\ ~rd[r].afterClose

\* C16: NewDatabase fetches exactly when os.Stat finds no file and a config is
\* given, then once and before geoip2.Open; when that fetch fails (the file is
\* still missing) construction fails with no decoder opened and no goroutine
\* started; with a file in place nothing is fetched.
C16_FetchedAt == {i \in 1..Len(ctorLog) : ctorLog[i] = "fetch"}
C16_OpenedAt == {i \in 1..Len(ctorLog) : ctorLog[i] = "open"}

C16_InitialFetch ==
    built # "no" =>
      /\ (C16_FetchedAt # {}) = (ctorIn.file.st = "absent" /\ ctorIn.config)
      /\ Cardinality(C16_FetchedAt) <= 1
      /\ \A i \in C16_FetchedAt : \A j \in C16_OpenedAt : i < j
      /\ (C16_FetchedAt # {} /\ file.st = "absent") =>
           /\ built = "err"
           /\ C16_OpenedAt = {}
           /\ decoders = <<>> /\ dbdb = NoDecoder
           /\ tasks = 0 /\ taskPc = "none"
      /\ (ctorIn.file.st # "absent") => C16_FetchedAt = {}

C16_Witness ==
    /\ built = "err"
    /\ ctorIn.file.st = "absent" /\ ctorIn.config /\ ctorIn.updateEvery > 0
    /\ ctorLog = <<"stat", "fetch">>
    /\ file.st = "absent"

\* C17: a lookup that starts reading reads the decoder of the last committed
\* swap (the newest decoder opened); a swap commits only while no lookup
\* holds the read lock, and while a lookup is reading, its decoder is neither
\* replaced nor closed.
C17_SwapVisibility ==
    [][ /\ (dbdb' # dbdb /\ dbdb # NoDecoder) =>
             /\ \A r \in Readers : ~InLookup(r)
             /\ dbdb' = Len(decoders')
             /\ decoders'[dbdb'].st = "open"
        /\ \A r \in Readers :
             (rd[r].pc = "locked" /\ rd'[r].pc = "reading") =>
               rd'[r].p = dbdb /\ dbdb = Len(decoders)
        /\ \A r \in Readers :
             rd[r].pc = "reading" =>
               /\ decoders'[rd[r].p] = decoders[rd[r].p]
               /\ dbdb' = dbdb
               /\ rd'[r].pc = "reading" => rd'[r].p = rd[r].p
      ]_vars

\* a lookup reads the swapped-in decoder, the replaced one is closed, and
\* another lookup is asking for the read lock
C17_Witness ==
    /\ cyc.outcome = "ok"
    /\ taskPc = "select"
    /\ decoders[1].st = "closed"
    /\ \E r \in Readers : rd[r].pc = "reading" /\ rd[r].p = 2 /\ rd[r].open0
    /\ \E r \in Readers : rd[r].pc = "rlock"

\* C18: the background goroutine exits only after cancellation, and then
\* db.err has been closed exactly once; until it exits db.err is open, and
\* after a cycle, failed or not, it is back at its select where the next tick
\* starts another cycle.
C18_TaskExitsOnlyOnCancel ==
    (built = "ok" /\ ctorIn.config /\ ctorIn.updateEvery > 0) =>
      /\ taskPc = "exited" => (cancelled /\ errClosed /\ errCloses = 1 /\ tasks = 0)
      /\ taskPc # "exited" => (~errClosed /\ errCloses = 0 /\ tasks = 1)
      /\ (cyc.outcome \in {"ok", "fetchfail", "openfail"} /\ taskPc # "exited") =>
           taskPc = "select"
      /\ (taskPc = "select" /\ cycles < MaxCycles) => ENABLED TaskTick

C18_Witness ==
    /\ taskPc = "exited"
    /\ cycles = 2
    /\ cyc.outcome = "openfail"
    /\ errCloses = 1
    /\ cancelled

\* C19: under FairDb, a Close that has been called returns: the goroutine, if
\* there is one, leaves its cycle, sees the cancellation, exits and closes
\* db.err; Close then takes the write lock, closes the decoder and returns.
C19_CloseReturns ==
    (closePc = "recv") ~>
       (closePc = "idle" /\ closeDone = closeCalls /\ taskPc \in {"none", "exited"})

\* the goroutine ran two cycles, the last one a swap, and the one Close
\* called has returned
C19_Witness ==
    /\ ctorIn.config /\ ctorIn.updateEvery > 0
    /\ closeCalls = 1 /\ closeDone = 1 /\ closePc = "idle"
    /\ taskPc = "exited"
    /\ cyc.outcome = "ok"
    /\ cycles = 2
    /\ closeRet = "nil"

\* C20: a second Close on the handle returns without closing the decoder
\* again: no decoder is ever closed twice.
C20_SecondCloseReleasesNothing ==
    closeCalls = 2 => \A i \in 1..Len(decoders) : decoders[i].closes <= 1

\* C21: a refresh cycle that ended in failure (the fetch failed or the fetched
\* file did not open) has left the file at filePath as it was when the cycle
\* started.
C21_FailedCycleKeepsFile ==
    cyc.outcome \in {"fetchfail", "openfail"} => file = cyc.file

\* C26: a request whose TLS handshake is not complete ends with the HTTP 425
\* error as the result of ServeHTTP, the next handler is not run.
C26_IncompleteHandshakeIs425 ==
    (hPc = "done" /\ hReq.tls = "incomplete") => hRet = "425"

\* C27: decoders are neither leaked nor closed twice. While the write lock is
\* free and Close has not closed the decoder, the one open decoder is db.db;
\* every decoder replaced by a swap is closed, once; up to a second call of
\* Close no decoder is closed twice, and after Close has returned none is open.
C27_DecodersClosedOnce ==
    built = "ok" =>
      /\ (mxW = "none" /\ closeDone = 0) =>
           {i \in 1..Len(decoders) : decoders[i].st = "open"} = {dbdb}
      /\ \A i \in 1..Len(decoders) :
           /\ i < dbdb => (decoders[i].st = "closed" /\ decoders[i].closes = 1)
           /\ i > dbdb => (decoders[i].st = "open" /\ taskPc = "swap" /\ i = dbdb + 1)
           /\ closeCalls <= 1 => decoders[i].closes <= 1
           /\ closeDone >= 1 => decoders[i].st = "closed"

\* two swaps, then one Close: three decoders, each closed once
C27_Witness ==
    /\ built = "ok"
    /\ Len(decoders) = 3
    /\ closeCalls = 1 /\ closeDone = 1
    /\ \A i \in 1..3 : decoders[i].st = "closed" /\ decoders[i].closes = 1

\* C28: once the context is cancelled the goroutine starts no refresh cycle:
\* its select does not take the ticker case.
C28_NoCycleAfterCancel ==
    [][cancelled => ~(taskPc = "select" /\ taskPc' = "lock")]_vars

\* the handles queried before the loop of a section ends: up to and including
\* the first one that returns no error
QueriedUpToFirstAnswer(ans) ==
    LET S == {i \in 1..Len(ans) : ans[i] # "err"}
        m == IF S = {} THEN Len(ans) ELSE CHOOSE i \in S : \A j \in S : i <= j
    IN  [i \in 1..m |-> i]

\* C29: each section queries the handles in order and stops at the first one
\* that returns no error, with or without data: every handle queried before
\* it returned an error, and none after it is queried.
C29_StopsAtFirstAnswer ==
    (hPc = "done" /\ ClientIP(hReq).ip # "unspecified") =>
      \A k \in Kinds :
        /\ hQueried[k] = QueriedUpToFirstAnswer(hIn.answers[k])
        /\ \A j \in 1..Len(hQueried[k]) :
             j < Len(hQueried[k]) => hIn.answers[k][hQueried[k][j]] = "err"

C29_Witness ==
    /\ hPc = "done"
    /\ ClientIP(hReq).ip = "valid"
    /\ hIn.n = 3
    /\ hIn.answers["City"] = <<"err", "nodata", "data">>
    /\ hQueried["City"] = <<1, 2>>
    /\ hSrc["City"] = 0
    /\ hIn.answers["ASN"] = <<"data", "err", "err">>
    /\ hQueried["ASN"] = <<1>>

\* C22: when Stop has returned, the update goroutine (if Start launched one)
\* has exited: it is not in its select, in update() or sending on g.exit.
C22_StopAfterGoroutineExit ==
    gStop.pc = "done" => gTaskPc \in {"none", "exited"}

\* C23: after Start has succeeded and until Destruct is called, g.db is not
\* nil and is an open reader whenever the write lock is free, whatever the
\* periodic updates did; no Lookup panics.
C23_DecoderUsableAfterStart ==
    (gStart = "ok" /\ gDestruct = "no" /\ gMxW = "none") =>
      /\ gDb # NoDecoder
      /\ gDecoders[gDb].st = "open"
      /\ \A r \in Readers : gRd[r].res # "panic"

\* C24: Stop returns an error only if the periodic update that ended last
\* before it returned failed.
C24_StopErrorIsLastAttempt ==
    (gStop.pc = "done" /\ gStop.ret # "nil") => gStop.last = "fail"

\* C25: the goroutine is never held up reporting a failed update: whenever it
\* is at g.exit <- err before any Stop, the send can complete.
C25_SendNeverBlocks ==
    (gTaskPc = "send" /\ gStop.pc = "idle") => ENABLED GSend

\* C30: a Stop that waits on g.exit can return, or a goroutine that will
\* close g.exit is alive: Stop does not wait on a channel nobody will close.
C30_StopNotStuck ==
    gStop.pc = "recv" => (ENABLED GStopRecv \/ gTaskPc \notin {"none", "exited"})

====
